---- MODULE Spec2Model ----
(***************************************************************************)
(* A model of the video player of jellyroll-web:                           *)
(*   - ProgressBar (src/src/components/video/InfoOverlay.tsx, second half):*)
(*     the scrub preview: hover handler, debounced seek of the hidden      *)
(*     preview element, frame cache, movement suppression;                 *)
(*   - VideoPlayer (src/src/components/video/VideoPlayer.tsx): volume and  *)
(*     mute state, persisted preferences, caption tracks, the controls'    *)
(*     inactivity timer, play state, fullscreen, teardown.                 *)
(* Times are in milliseconds, positions in CSS pixels, volumes in tenths   *)
(* (the range slider's step).  An optional value is a sequence of length   *)
(* at most one: << >> is null, <<v>> is the value v.                       *)
(***************************************************************************)
EXTENDS Integers, Naturals, Sequences, FiniteSets, TLC

VARIABLES
    \* ---- ProgressBar / VideoControls state ----
    trackWidth,        \* progressRef.current.getBoundingClientRect().width
    containerWidth,    \* useState(0), set by the ResizeObserver
    isVideoPlaying,    \* VideoPlayer state, the ProgressBar's isPlaying prop
    pointerOver,       \* the pointer is over the track element
    previewTime,       \* VideoControls state: null or the hover target time
    previewPosition,   \* VideoControls state: the hover position
    isMoving,          \* useState(false)
    lastPositionRef,   \* useRef(null)
    moveTimeoutRef,    \* pending movement timer: null or [rem, pos]
    timeoutId,         \* pending debounce timer: null or [rem, time]
    previewCache,      \* Map<second, image>; an image is the frame's time
    canvas,            \* what the preview canvas shows: blank or a frame
    imgPending,        \* images whose onload has not run yet
    seekTarget,        \* seek in flight on the hidden element: null or time
    \* ---- VideoPlayer volume state ----
    volume,            \* useState: volume, in tenths
    previousVolume,    \* useState: previousVolume, in tenths
    videoVolume,       \* videoRef.current.volume
    storage,           \* localStorage: key -> null or stored string
    \* ---- VideoPlayer session state ----
    mounted,           \* the player (and its ProgressBar) is mounted
    videoPaused,       \* videoRef.current.paused
    videoCurrentTime,  \* videoRef.current.currentTime, in ms
    isControlsVisible, \* useState(true)
    controlsTimers,    \* the hide timers that are pending: a set of [id, rem]
    controlsTimerRef,  \* useRef(null): null or the id of a timer
    isFullscreen,      \* useState(false)
    fullscreenElement, \* !!document.fullscreenElement
    fullscreenChanges, \* fullscreenchange notifications not yet processed
    showChapterMarkers,\* useState: loaded from the store, default true
    showCaptions,      \* useState: loaded from the store, default false
    selectedTrack,     \* useState: a label, "" for none
    textTracks,        \* video.textTracks: the labels, in order
    trackModes,        \* the mode of each text track
    availableTracks,   \* useState([]): the labels listed by handleTracksChange
    \* ---- observation (history) variables, not program state ----
    hSinceMove,        \* ms since the last pointer movement over the player (capped)
    hQuiet,            \* ms the element has played without pointer movement (capped)
    hLast,             \* the last player operation: null or [op, arg, before]
    hSinceHover,       \* ms since the last handled hover move (capped)
    hHover,            \* the last handled hover: null or [time, cached, mounted, burst]
    hSeeks,            \* seekTo calls since the last handled hover (capped)
    hSinceQualifying,  \* ms since the last handled move of more than 5 px (capped)
    hOps               \* the last two volume operations, newest first

scrubVars == <<trackWidth, containerWidth, isVideoPlaying, pointerOver,
               previewTime, previewPosition, isMoving, lastPositionRef,
               moveTimeoutRef, timeoutId, previewCache, canvas, imgPending,
               seekTarget>>
scrubHist == <<hSinceHover, hHover, hSeeks, hSinceQualifying>>
volumeVars == <<volume, previousVolume, videoVolume, storage, hOps>>
controlsVars == <<isControlsVisible, controlsTimers, controlsTimerRef>>
fullscreenVars == <<isFullscreen, fullscreenElement, fullscreenChanges>>
captionVars == <<showChapterMarkers, showCaptions, selectedTrack, textTracks,
                 trackModes, availableTracks>>
playerVars == <<mounted, videoCurrentTime, controlsVars, fullscreenVars, captionVars>>
playerHist == <<hSinceMove, hQuiet, hLast>>
vars == <<scrubVars, scrubHist, volumeVars, videoPaused, playerVars, playerHist>>

----------------------------------------------------------------------------
(* Bounds of the model *)

\* the media's duration in seconds (the duration prop)
MediaDuration == 10
\* the hidden element may land on the preceding keyframe; their spacing in ms
KeyframeGap == 2000
\* ids of hide timers that may be pending at once
MaxTimers == 2
\* cap on fullscreenchange notifications not yet processed
MaxFullscreenChanges == 2
\* cap of the hSeeks counter
MaxSeeks == 2
\* cap on cached images still loading
MaxImgPending == 1
\* cap of the count of hover moves that follow each other within the delay
MaxBurst == 3

\* widths the track can have (a narrow and a wide window)
Widths == {250, 1000}
\* pointer offsets from the track's left edge
Positions == {50, 200, 205, 220, 840}
\* the offsets used where the frame cache, not the movement, is observed
SeekPositions == {200, 205, 840}

----------------------------------------------------------------------------
(* Program constants *)

MOVEMENT_THRESHOLD == 5
TIME_THRESHOLD == 200
DEBOUNCE_DELAY == 150
BOUNDARY_MARGIN == 160
HIDE_DELAY == 3000

----------------------------------------------------------------------------
(* Helpers *)

None == << >>
Some(v) == <<v>>
IsSome(o) == Len(o) = 1
Val(o) == o[1]

Min(a, b) == IF a <= b THEN a ELSE b
Max(a, b) == IF a >= b THEN a ELSE b
Abs(a) == IF a >= 0 THEN a ELSE 0 - a

RECURSIVE GCD(_, _)
GCD(a, b) == IF b = 0 THEN a ELSE GCD(b, a % b)
\* the granularity of time: every timer delay is a multiple of it
TickMs == GCD(DEBOUNCE_DELAY, TIME_THRESHOLD)
\* the granularity of time for the hide timer
ControlsTickMs == HIDE_DELAY \div 3

\* Math.floor of a time: whole seconds
Floor(time) == time \div 1000

\* pos = (clientX - rect.left) / rect.width;  time = pos * duration
PosToTime(newPosition, width) == (newPosition * MediaDuration * 1000) \div width

\* the preview overlay (and with it the canvas) is mounted
OverlayRendered == ~isVideoPlaying /\ IsSome(previewTime)

\* style.left of the preview overlay
PreviewLeft == Min(Max(BOUNDARY_MARGIN, previewPosition), containerWidth - BOUNDARY_MARGIN)

\* a boundary test that knows the left margin only
IsAtBoundaryLeftOnly(newPosition) == newPosition <= BOUNDARY_MARGIN

\* const isAtBoundary = newPosition <= 160 || newPosition >= containerWidth - 160
IsAtBoundary(newPosition) ==
    \/ newPosition <= BOUNDARY_MARGIN
    \/ newPosition >= containerWidth - BOUNDARY_MARGIN

\* times the hidden element may report after a seek to target
Landings(target) == {target, target - (target % KeyframeGap)}

\* a cache that keeps the first image written for a key
CachePutKeepFirst(cache, key, image) ==
    [k \in (DOMAIN cache) \cup {key} |-> IF k \in DOMAIN cache THEN cache[k] ELSE image]

\* previewCache.current.set(key, image)
CachePut(cache, key, image) ==
    [k \in (DOMAIN cache) \cup {key} |-> IF k = key THEN image ELSE cache[k]]

----------------------------------------------------------------------------
(* ProgressBar: the scrub preview (program actions) *)

\* (a variant for C1: a pending timer keeps running instead of restarting)
DebouncedSeekNoRestart(time) ==
    LET roundedTime == Floor(time)
        cachedFrame == roundedTime \in DOMAIN previewCache
    IN  IF cachedFrame /\ OverlayRendered
        THEN /\ timeoutId' = None
             /\ imgPending' = Append(imgPending, previewCache[roundedTime])
        ELSE /\ timeoutId' = Some([rem |-> IF IsSome(timeoutId)
                                           THEN Val(timeoutId).rem
                                           ELSE DEBOUNCE_DELAY,
                                   time |-> time])
             /\ imgPending' = imgPending

\* debouncedSeek(time): cancel the pending timer; a cached frame is drawn
\* (through an Image whose onload runs later) when the canvas exists, and
\* otherwise a seek of the hidden element is scheduled
DebouncedSeek(time) ==
    LET roundedTime == Floor(time)
        cachedFrame == roundedTime \in DOMAIN previewCache
    IN  IF cachedFrame /\ OverlayRendered
        THEN /\ timeoutId' = None
             /\ imgPending' = Append(imgPending, previewCache[roundedTime])
        ELSE /\ timeoutId' = Some([rem |-> DEBOUNCE_DELAY, time |-> time])
             /\ imgPending' = imgPending

\* Math.abs(newPosition - lastPositionRef.current), 0 without a last position
Distance(newPosition) ==
    IF IsSome(lastPositionRef) THEN Abs(newPosition - Val(lastPositionRef)) ELSE 0

\* the movement-suppression half of handleProgressHover
TrackMovement(newPosition) ==
    /\ IF ~IsAtBoundary(newPosition)
       THEN /\ isMoving' = IF Distance(newPosition) > MOVEMENT_THRESHOLD
                           THEN TRUE ELSE isMoving
            /\ moveTimeoutRef' = Some([rem |-> TIME_THRESHOLD, pos |-> newPosition])
       ELSE /\ isMoving' = FALSE
            /\ UNCHANGED moveTimeoutRef
    /\ lastPositionRef' = Some(newPosition)

\* handleProgressHover(e), reached only while paused
HandleProgressHover(newPosition) ==
    LET time == PosToTime(newPosition, trackWidth)
    IN  /\ ~isVideoPlaying
        /\ canvas' = None
        /\ previewTime' = Some(time)
        /\ previewPosition' = newPosition
        /\ DebouncedSeek(time)
        /\ TrackMovement(newPosition)

\* a track whose onMouseMove is handleProgressHover in every play state, and
\* a handleProgressHover without the isPlaying test
PointerMoveAnyPlayState(newPosition) ==
    /\ mounted
    /\ newPosition <= trackWidth
    /\ pointerOver' = TRUE
    /\ Len(imgPending) < MaxImgPending
    /\ canvas' = None
    /\ previewTime' = Some(PosToTime(newPosition, trackWidth))
    /\ previewPosition' = newPosition
    /\ DebouncedSeek(PosToTime(newPosition, trackWidth))
    /\ TrackMovement(newPosition)
    /\ UNCHANGED <<trackWidth, containerWidth, isVideoPlaying, previewCache,
                   seekTarget, volumeVars, videoPaused, playerVars, playerHist>>

\* a mousemove over the track: onMouseMove is handleProgressHover while
\* paused and undefined while playing
PointerMove(newPosition) ==
    /\ mounted
    /\ newPosition <= trackWidth
    /\ pointerOver' = TRUE
    /\ IF isVideoPlaying
       THEN UNCHANGED <<previewTime, previewPosition, isMoving, lastPositionRef,
                        moveTimeoutRef, timeoutId, canvas, imgPending>>
       ELSE /\ Len(imgPending) < MaxImgPending
            /\ HandleProgressHover(newPosition)
    /\ UNCHANGED <<trackWidth, containerWidth, isVideoPlaying, previewCache,
                   seekTarget, volumeVars, videoPaused, playerVars, playerHist>>

\* onMouseLeave of the track
MouseLeave ==
    /\ mounted
    /\ pointerOver
    /\ pointerOver' = FALSE
    /\ previewTime' = None
    /\ isMoving' = FALSE
    /\ canvas' = None
    /\ imgPending' = << >>
    /\ UNCHANGED <<trackWidth, containerWidth, isVideoPlaying, previewPosition,
                   lastPositionRef, moveTimeoutRef, timeoutId, previewCache,
                   seekTarget, volumeVars, videoPaused, playerVars, playerHist>>

\* the primary element starts or stops playing and its play / pause
\* notification runs playStateChange: setIsVideoPlaying(!video.paused).
\* The overlay, and with it the canvas, is unmounted while playing.
PlayStateChange ==
    /\ mounted
    /\ videoPaused' = ~videoPaused
    /\ isVideoPlaying' = ~videoPaused'
    /\ canvas' = IF isVideoPlaying' = isVideoPlaying THEN canvas ELSE None
    /\ imgPending' = IF isVideoPlaying' = isVideoPlaying THEN imgPending ELSE << >>
    /\ UNCHANGED <<trackWidth, containerWidth, pointerOver, previewTime,
                   previewPosition, isMoving, lastPositionRef, moveTimeoutRef,
                   timeoutId, previewCache, seekTarget, volumeVars, playerVars>>

\* a timer with rem = 0 is due: its callback runs before time advances
TimerDue(t) == IsSome(t) /\ Val(t).rem = 0
Elapse(t) == IF IsSome(t) THEN Some([Val(t) EXCEPT !.rem = @ - TickMs]) ELSE t

\* the debounce timer's callback: if (previewVideoRef.current)
\* previewVideoRef.current.currentTime = time; the ref is null after unmount
DebounceFire ==
    /\ TimerDue(timeoutId)
    /\ seekTarget' = IF mounted THEN Some(Val(timeoutId).time) ELSE seekTarget
    /\ timeoutId' = None
    /\ UNCHANGED <<trackWidth, containerWidth, isVideoPlaying, pointerOver,
                   previewTime, previewPosition, isMoving, lastPositionRef,
                   moveTimeoutRef, previewCache, canvas, imgPending, volumeVars, videoPaused, playerVars, playerHist>>

\* the movement timer's callback
MoveTimeoutFire ==
    /\ TimerDue(moveTimeoutRef)
    /\ isMoving' = IF Distance(Val(moveTimeoutRef).pos) <= MOVEMENT_THRESHOLD
                   THEN FALSE ELSE isMoving
    /\ moveTimeoutRef' = None
    /\ UNCHANGED <<trackWidth, containerWidth, isVideoPlaying, pointerOver,
                   previewTime, previewPosition, lastPositionRef, timeoutId,
                   previewCache, canvas, imgPending, seekTarget, volumeVars, videoPaused, playerVars, playerHist>>

\* TickMs milliseconds pass
Tick ==
    /\ ~TimerDue(timeoutId)
    /\ ~TimerDue(moveTimeoutRef)
    /\ timeoutId' = Elapse(timeoutId)
    /\ moveTimeoutRef' = Elapse(moveTimeoutRef)
    /\ UNCHANGED <<trackWidth, containerWidth, isVideoPlaying, pointerOver,
                   previewTime, previewPosition, isMoving, lastPositionRef,
                   previewCache, canvas, imgPending, seekTarget, volumeVars, videoPaused, playerVars, playerHist>>

\* a handleSeeked whose cache write comes before the step that can throw
HandleSeekedCacheOnThrow(currentTime, throws) ==
    IF OverlayRendered
    THEN /\ canvas' = Some(currentTime)
         /\ previewCache' = CachePut(previewCache, Floor(currentTime), currentTime)
    ELSE UNCHANGED <<canvas, previewCache>>

\* a handleSeeked that keys the entry by the time that was requested
HandleSeekedKeyRequested(currentTime, throws) ==
    IF OverlayRendered
    THEN /\ canvas' = Some(currentTime)
         /\ previewCache' = IF throws
                            THEN previewCache
                            ELSE CachePut(previewCache, Floor(Val(seekTarget)), currentTime)
    ELSE UNCHANGED <<canvas, previewCache>>

\* handleSeeked, with currentTime the hidden element's previewVideo.currentTime:
\* without a canvas it returns; otherwise the frame is drawn and cached under
\* the floor of currentTime; when toDataURL throws the frame is drawn but
\* nothing is cached
HandleSeeked(currentTime, throws) ==
    IF OverlayRendered
    THEN /\ canvas' = Some(currentTime)
         /\ previewCache' = IF throws
                            THEN previewCache
                            ELSE CachePut(previewCache, Floor(currentTime), currentTime)
    ELSE UNCHANGED <<canvas, previewCache>>

\* the hidden element's seeked notification
Seeked(landed, throws) ==
    /\ mounted
    /\ IsSome(seekTarget)
    /\ landed \in Landings(Val(seekTarget))
    /\ seekTarget' = None
    /\ HandleSeeked(landed, throws)
    /\ UNCHANGED <<trackWidth, containerWidth, isVideoPlaying, pointerOver,
                   previewTime, previewPosition, isMoving, lastPositionRef,
                   moveTimeoutRef, timeoutId, imgPending, volumeVars, videoPaused, playerVars, playerHist>>

\* img.onload of a cached frame: clearRect, drawImage
ImgLoaded ==
    /\ mounted
    /\ imgPending # << >>
    /\ canvas' = Some(Head(imgPending))
    /\ imgPending' = Tail(imgPending)
    /\ UNCHANGED <<trackWidth, containerWidth, isVideoPlaying, pointerOver,
                   previewTime, previewPosition, isMoving, lastPositionRef,
                   moveTimeoutRef, timeoutId, previewCache, seekTarget, volumeVars, videoPaused, playerVars, playerHist>>

\* the ResizeObserver's callback: setContainerWidth(entry.contentRect.width)
ResizeObserved ==
    /\ mounted
    /\ containerWidth # trackWidth
    /\ containerWidth' = trackWidth
    /\ UNCHANGED <<trackWidth, isVideoPlaying, pointerOver, previewTime,
                   previewPosition, isMoving, lastPositionRef, moveTimeoutRef,
                   timeoutId, previewCache, canvas, imgPending, seekTarget,
                   volumeVars, videoPaused, playerVars, playerHist>>

----------------------------------------------------------------------------
(* VideoPlayer: volume and mute.  A volume is an integer number of tenths: *)
(* the range slider has min 0, max 1 and step 0.1.                         *)

VOLUME_STORAGE_KEY == "jellyroll_player_volume"
PREVIOUS_VOLUME_STORAGE_KEY == "jellyroll_player_previous_volume"
SHOW_CHAPTERS_STORAGE_KEY == "jellyroll_player_show_chapters"
CAPTION_TRACK_STORAGE_KEY == "jellyroll_player_caption_track"
CAPTIONS_ENABLED_STORAGE_KEY == "jellyroll_player_captions_enabled"
StorageKeys == {VOLUME_STORAGE_KEY, PREVIOUS_VOLUME_STORAGE_KEY,
                SHOW_CHAPTERS_STORAGE_KEY, CAPTION_TRACK_STORAGE_KEY,
                CAPTIONS_ENABLED_STORAGE_KEY}
EmptyStorage == [k \in StorageKeys |-> None]

\* the values the range input can report
SliderValues == 0..10
\* numbers a caller of handleVolumeChange may pass
NumberValues == (0 - 2)..12

\* A stored number is the sequence of its characters.
Digit(d) == <<"0", "1", "2", "3", "4", "5", "6", "7", "8", "9">>[d + 1]
IsDigit(c) == \E d \in 0..9 : Digit(d) = c
DigitValue(c) == CHOOSE d \in 0..9 : Digit(d) = c

\* Number.prototype.toString of a number of tenths below 10
NumberToString(v) ==
    LET a == Abs(v)
        whole == a \div 10
        frac == a % 10
    IN  (IF v < 0 THEN <<"-">> ELSE << >>)
        \o <<Digit(whole)>>
        \o (IF frac = 0 THEN << >> ELSE <<".", Digit(frac)>>)

\* the number of leading digits of str
RECURSIVE DigitsPrefix(_)
DigitsPrefix(str) ==
    IF str # << >> /\ IsDigit(Head(str)) THEN 1 + DigitsPrefix(Tail(str)) ELSE 0

\* the value of a sequence of digits
RECURSIVE IntValue(_)
IntValue(digits) ==
    IF digits = << >>
    THEN 0
    ELSE 10 * IntValue(SubSeq(digits, 1, Len(digits) - 1))
         + DigitValue(digits[Len(digits)])

\* parseFloat of a decimal string, in tenths: sign, integer digits, and the
\* first digit after the point
ParseFloat(str) ==
    LET neg == str # << >> /\ Head(str) = "-"
        body == IF neg THEN Tail(str) ELSE str
        n == DigitsPrefix(body)
        whole == IntValue(SubSeq(body, 1, n))
        frac == IF Len(body) >= n + 2 /\ body[n + 1] = "." /\ IsDigit(body[n + 2])
                THEN DigitValue(body[n + 2])
                ELSE 0
        magnitude == 10 * whole + frac
    IN  IF neg THEN 0 - magnitude ELSE magnitude

\* storedVolume ? parseFloat(storedVolume) : 1
LoadVolume(store, key) ==
    IF IsSome(store[key]) /\ Val(store[key]) # << >>
    THEN ParseFloat(Val(store[key]))
    ELSE 10

\* videoRef.current.volume = volume: the element throws on a value outside
\* [0, 1] and keeps its volume
ApplyVolume(elementVolume, v) == IF v >= 0 /\ v <= 10 THEN v ELSE elementVolume

\* the effects on [volume] and [previousVolume]
VolumeEffects ==
    /\ storage' = [storage EXCEPT
                     ![VOLUME_STORAGE_KEY] = Some(NumberToString(volume')),
                     ![PREVIOUS_VOLUME_STORAGE_KEY] = Some(NumberToString(previousVolume'))]
    /\ videoVolume' = ApplyVolume(videoVolume, volume')

\* a handleVolumeChange that remembers every level, zero included
HandleVolumeChangeRememberAll(newVolume) ==
    /\ volume' = newVolume
    /\ previousVolume' = newVolume
    /\ VolumeEffects
    /\ UNCHANGED <<scrubVars, scrubHist, videoPaused, playerVars>>

\* a handleVolumeChange that never updates previousVolume
HandleVolumeChangeKeepPrevious(newVolume) ==
    /\ mounted
    /\ volume' = newVolume
    /\ previousVolume' = previousVolume
    /\ VolumeEffects
    /\ UNCHANGED <<scrubVars, scrubHist, videoPaused, playerVars>>

\* handleVolumeChange(newVolume)
HandleVolumeChange(newVolume) ==
    /\ mounted
    /\ volume' = newVolume
    /\ previousVolume' = IF newVolume > 0 THEN newVolume ELSE previousVolume
    /\ VolumeEffects
    /\ UNCHANGED <<scrubVars, scrubHist, videoPaused, playerVars>>

\* a handleVolumeMuteToggle that unmutes to full volume
HandleVolumeMuteToggleToFull ==
    /\ IF volume > 0
       THEN /\ previousVolume' = volume
            /\ volume' = 0
       ELSE /\ volume' = 10
            /\ UNCHANGED previousVolume
    /\ VolumeEffects
    /\ UNCHANGED <<scrubVars, scrubHist, videoPaused, playerVars>>

\* handleVolumeMuteToggle()
HandleVolumeMuteToggle ==
    /\ mounted
    /\ IF volume > 0
       THEN /\ previousVolume' = volume
            /\ volume' = 0
       ELSE /\ volume' = previousVolume
            /\ UNCHANGED previousVolume
    /\ VolumeEffects
    /\ UNCHANGED <<scrubVars, scrubHist, videoPaused, playerVars>>

----------------------------------------------------------------------------
(* VideoPlayer: the other persisted preferences and the caption tracks.    *)
(* A text track is its label; the tracks of an element start disabled (the *)
(* element's own automatic track selection is left out).                   *)

\* the text tracks an item may bring, as their labels in order
TrackLists == { << >>, <<"Spanish">>, <<"English", "Spanish">>,
                <<"English", "English">> }

\* Boolean.prototype.toString
BoolToString(b) == IF b THEN "true" ELSE "false"

\* storedShowChapters !== null ? storedShowChapters === 'true' : true
LoadShowChapterMarkers(store) ==
    IF IsSome(store[SHOW_CHAPTERS_STORAGE_KEY])
    THEN Val(store[SHOW_CHAPTERS_STORAGE_KEY]) = "true"
    ELSE TRUE

\* localStorage.getItem(CAPTIONS_ENABLED_STORAGE_KEY) === 'true'
LoadShowCaptions(store) == store[CAPTIONS_ENABLED_STORAGE_KEY] = Some("true")

\* localStorage.getItem(CAPTION_TRACK_STORAGE_KEY) || ''
LoadSelectedTrack(store) ==
    IF IsSome(store[CAPTION_TRACK_STORAGE_KEY]) /\ Val(store[CAPTION_TRACK_STORAGE_KEY]) # ""
    THEN Val(store[CAPTION_TRACK_STORAGE_KEY])
    ELSE ""

\* the store after the five persistence effects have run
Persist(v, pv, chapters, captions, track) ==
    [k \in StorageKeys |->
        CASE k = VOLUME_STORAGE_KEY -> Some(NumberToString(v))
          [] k = PREVIOUS_VOLUME_STORAGE_KEY -> Some(NumberToString(pv))
          [] k = SHOW_CHAPTERS_STORAGE_KEY -> Some(BoolToString(chapters))
          [] k = CAPTIONS_ENABLED_STORAGE_KEY -> Some(BoolToString(captions))
          [] k = CAPTION_TRACK_STORAGE_KEY -> IF track # "" THEN Some(track) ELSE None]

\* effects that never write a newly selected label
CaptionEffectsKeepLabel ==
    storage' = Persist(volume, previousVolume, showChapterMarkers',
                       showCaptions', selectedTrack)

\* the effects on [showChapterMarkers], [showCaptions] and [selectedTrack]
CaptionEffects ==
    storage' = Persist(volume, previousVolume, showChapterMarkers',
                       showCaptions', selectedTrack')

\* tracks.forEach(track => track.mode = 'disabled')
AllDisabled == [i \in DOMAIN textTracks |-> "disabled"]

\* tracks.find(t => t.label === label): the first track with that label
HasTrack(label) == \E i \in DOMAIN textTracks : textTracks[i] = label
Find(label) ==
    CHOOSE i \in DOMAIN textTracks :
        /\ textTracks[i] = label
        /\ \A j \in DOMAIN textTracks : textTracks[j] = label => i <= j

\* the tracks that are showing
Showing == {i \in DOMAIN trackModes : trackModes[i] = "showing"}

\* onToggleChapterMarkers: setShowChapterMarkers(prev => !prev)
ToggleChapterMarkers ==
    /\ mounted
    /\ showChapterMarkers' = ~showChapterMarkers
    /\ UNCHANGED <<showCaptions, selectedTrack, textTracks, trackModes,
                   availableTracks>>
    /\ CaptionEffects
    /\ UNCHANGED <<scrubVars, scrubHist, volume, previousVolume, videoVolume,
                   hOps, videoPaused, mounted, videoCurrentTime, controlsVars,
                   fullscreenVars>>

\* a handleTracksChange that does not look at the captions flag
HandleTracksChangeIgnoreFlag ==
    /\ mounted
    /\ availableTracks' = textTracks
    /\ trackModes' = IF selectedTrack # "" /\ HasTrack(selectedTrack)
                     THEN [AllDisabled EXCEPT ![Find(selectedTrack)] = "showing"]
                     ELSE AllDisabled
    /\ UNCHANGED <<showChapterMarkers, showCaptions, selectedTrack, textTracks>>
    /\ UNCHANGED <<scrubVars, scrubHist, volumeVars, videoPaused, mounted,
                   videoCurrentTime, controlsVars, fullscreenVars>>

\* handleTracksChange, on the element's loadedmetadata notification
HandleTracksChange ==
    /\ mounted
    /\ availableTracks' = textTracks
    /\ trackModes' = IF selectedTrack # "" /\ showCaptions /\ HasTrack(selectedTrack)
                     THEN [AllDisabled EXCEPT ![Find(selectedTrack)] = "showing"]
                     ELSE AllDisabled
    /\ UNCHANGED <<showChapterMarkers, showCaptions, selectedTrack, textTracks>>
    /\ UNCHANGED <<scrubVars, scrubHist, volumeVars, videoPaused, mounted,
                   videoCurrentTime, controlsVars, fullscreenVars>>

\* a handleCaptionToggle whose fallback shows the last track
HandleCaptionToggleLast ==
    /\ mounted
    /\ IF ~showCaptions
       THEN IF selectedTrack # "" /\ HasTrack(selectedTrack)
            THEN /\ trackModes' = [AllDisabled EXCEPT ![Find(selectedTrack)] = "showing"]
                 /\ showCaptions' = TRUE
                 /\ UNCHANGED selectedTrack
            ELSE IF textTracks # << >>
                 THEN /\ trackModes' = [trackModes EXCEPT ![Len(textTracks)] = "showing"]
                      /\ selectedTrack' = textTracks[Len(textTracks)]
                      /\ showCaptions' = TRUE
                 ELSE UNCHANGED <<trackModes, selectedTrack, showCaptions>>
       ELSE /\ trackModes' = AllDisabled
            /\ showCaptions' = FALSE
            /\ UNCHANGED selectedTrack
    /\ UNCHANGED <<showChapterMarkers, textTracks, availableTracks>>
    /\ CaptionEffects
    /\ UNCHANGED <<scrubVars, scrubHist, volume, previousVolume, videoVolume,
                   hOps, videoPaused, mounted, videoCurrentTime, controlsVars,
                   fullscreenVars>>

\* handleCaptionToggle
HandleCaptionToggle ==
    /\ mounted
    /\ IF ~showCaptions
       THEN IF selectedTrack # "" /\ HasTrack(selectedTrack)
            THEN /\ trackModes' = [AllDisabled EXCEPT ![Find(selectedTrack)] = "showing"]
                 /\ showCaptions' = TRUE
                 /\ UNCHANGED selectedTrack
            ELSE IF textTracks # << >>
                 THEN /\ trackModes' = [trackModes EXCEPT ![1] = "showing"]
                      /\ selectedTrack' = textTracks[1]
                      /\ showCaptions' = TRUE
                 ELSE UNCHANGED <<trackModes, selectedTrack, showCaptions>>
       ELSE /\ trackModes' = AllDisabled
            /\ showCaptions' = FALSE
            /\ UNCHANGED selectedTrack
    /\ UNCHANGED <<showChapterMarkers, textTracks, availableTracks>>
    /\ CaptionEffects
    /\ UNCHANGED <<scrubVars, scrubHist, volume, previousVolume, videoVolume,
                   hOps, videoPaused, mounted, videoCurrentTime, controlsVars,
                   fullscreenVars>>

\* a handleTrackSelect that leaves the other tracks as they are
HandleTrackSelectKeepOthers(trackLabel) ==
    /\ mounted
    /\ IF HasTrack(trackLabel)
       THEN /\ trackModes' = [trackModes EXCEPT ![Find(trackLabel)] = "showing"]
            /\ selectedTrack' = trackLabel
            /\ showCaptions' = TRUE
       ELSE /\ trackModes' = AllDisabled
            /\ UNCHANGED <<selectedTrack, showCaptions>>
    /\ UNCHANGED <<showChapterMarkers, textTracks, availableTracks>>
    /\ CaptionEffects
    /\ UNCHANGED <<scrubVars, scrubHist, volume, previousVolume, videoVolume,
                   hOps, videoPaused, mounted, videoCurrentTime, controlsVars,
                   fullscreenVars>>

\* a handleTrackSelect that does not mark captions enabled
HandleTrackSelectNoEnable(trackLabel) ==
    /\ mounted
    /\ IF HasTrack(trackLabel)
       THEN /\ trackModes' = [AllDisabled EXCEPT ![Find(trackLabel)] = "showing"]
            /\ selectedTrack' = trackLabel
            /\ UNCHANGED showCaptions
       ELSE /\ trackModes' = AllDisabled
            /\ UNCHANGED <<selectedTrack, showCaptions>>
    /\ UNCHANGED <<showChapterMarkers, textTracks, availableTracks>>
    /\ CaptionEffects
    /\ UNCHANGED <<scrubVars, scrubHist, volume, previousVolume, videoVolume,
                   hOps, videoPaused, mounted, videoCurrentTime, controlsVars,
                   fullscreenVars>>

\* handleTrackSelect(trackLabel)
HandleTrackSelect(trackLabel) ==
    /\ mounted
    /\ IF HasTrack(trackLabel)
       THEN /\ trackModes' = [AllDisabled EXCEPT ![Find(trackLabel)] = "showing"]
            /\ selectedTrack' = trackLabel
            /\ showCaptions' = TRUE
       ELSE /\ trackModes' = AllDisabled
            /\ UNCHANGED <<selectedTrack, showCaptions>>
    /\ UNCHANGED <<showChapterMarkers, textTracks, availableTracks>>
    /\ CaptionEffects
    /\ UNCHANGED <<scrubVars, scrubHist, volume, previousVolume, videoVolume,
                   hOps, videoPaused, mounted, videoCurrentTime, controlsVars,
                   fullscreenVars>>

----------------------------------------------------------------------------
(* VideoPlayer: controls auto-hide, fullscreen, direct seek, teardown *)

\* a hide timer that is due: its callback runs before time advances
HideTimerDue == \E t \in controlsTimers : t.rem = 0

\* an updateControlsVisibility that forgets to clear the previous timer
UpdateControlsVisibilityNoClear ==
    /\ mounted
    /\ \E id \in 1..MaxTimers :
          /\ \A t \in controlsTimers : t.id # id
          /\ \A other \in 1..MaxTimers :
                (\A t \in controlsTimers : t.id # other) => id <= other
          /\ controlsTimers' = controlsTimers \cup {[id |-> id, rem |-> HIDE_DELAY]}
          /\ controlsTimerRef' = Some(id)
    /\ isControlsVisible' = TRUE
    /\ UNCHANGED <<scrubVars, scrubHist, volumeVars, videoPaused, mounted,
                   videoCurrentTime, fullscreenVars, captionVars>>

\* updateControlsVisibility, the container's onMouseMove: show the controls,
\* clear the timer the ref holds, start a new one of 3000 ms
UpdateControlsVisibility ==
    /\ mounted
    /\ LET kept == {t \in controlsTimers : controlsTimerRef # Some(t.id)}
       IN  \E id \in 1..MaxTimers :
              /\ \A t \in kept : t.id # id
              /\ \A other \in 1..MaxTimers :
                    (\A t \in kept : t.id # other) => id <= other
              /\ controlsTimers' = kept \cup {[id |-> id, rem |-> HIDE_DELAY]}
              /\ controlsTimerRef' = Some(id)
    /\ isControlsVisible' = TRUE
    /\ UNCHANGED <<scrubVars, scrubHist, volumeVars, videoPaused, mounted,
                   videoCurrentTime, fullscreenVars, captionVars>>

\* the hide timer's callback: if (videoRef.current?.paused === false)
\* setIsControlsVisible(false)
ControlsTimerFire ==
    /\ \E t \in controlsTimers :
          /\ t.rem = 0
          /\ controlsTimers' = controlsTimers \ {t}
    /\ isControlsVisible' = IF mounted /\ ~videoPaused THEN FALSE ELSE isControlsVisible
    /\ UNCHANGED <<scrubVars, scrubHist, volumeVars, videoPaused, mounted,
                   videoCurrentTime, controlsTimerRef, fullscreenVars, captionVars>>

\* ControlsTickMs milliseconds pass
ControlsTick ==
    /\ ~HideTimerDue
    /\ controlsTimers' = {[t EXCEPT !.rem = @ - ControlsTickMs] : t \in controlsTimers}
    /\ UNCHANGED <<scrubVars, scrubHist, volumeVars, videoPaused, mounted,
                   videoCurrentTime, isControlsVisible, controlsTimerRef,
                   fullscreenVars, captionVars>>

\* a toggleFullscreen that sets the state itself
ToggleFullscreenOptimistic(granted) ==
    /\ mounted
    /\ fullscreenChanges < MaxFullscreenChanges
    /\ isFullscreen' = ~isFullscreen
    /\ IF ~fullscreenElement
       THEN IF granted
            THEN /\ fullscreenElement' = TRUE
                 /\ fullscreenChanges' = fullscreenChanges + 1
            ELSE UNCHANGED <<fullscreenElement, fullscreenChanges>>
       ELSE /\ fullscreenElement' = FALSE
            /\ fullscreenChanges' = fullscreenChanges + 1
    /\ UNCHANGED <<scrubVars, scrubHist, volumeVars, videoPaused, mounted,
                   videoCurrentTime, controlsVars, captionVars>>

\* toggleFullscreen: requestFullscreen on the container (granted, or rejected
\* and the rejection caught and logged) or document.exitFullscreen(); the
\* document then queues a fullscreenchange notification
ToggleFullscreen(granted) ==
    /\ mounted
    /\ fullscreenChanges < MaxFullscreenChanges
    /\ isFullscreen' = isFullscreen
    /\ IF ~fullscreenElement
       THEN IF granted
            THEN /\ fullscreenElement' = TRUE
                 /\ fullscreenChanges' = fullscreenChanges + 1
            ELSE UNCHANGED <<fullscreenElement, fullscreenChanges>>
       ELSE /\ fullscreenElement' = FALSE
            /\ fullscreenChanges' = fullscreenChanges + 1
    /\ UNCHANGED <<scrubVars, scrubHist, volumeVars, videoPaused, mounted,
                   videoCurrentTime, controlsVars, captionVars>>

\* fullscreen is left by the browser (Escape key)
ExternalExit ==
    /\ fullscreenElement
    /\ fullscreenChanges < MaxFullscreenChanges
    /\ fullscreenElement' = FALSE
    /\ fullscreenChanges' = fullscreenChanges + 1
    /\ UNCHANGED <<scrubVars, scrubHist, volumeVars, videoPaused, mounted,
                   videoCurrentTime, controlsVars, isFullscreen, captionVars>>

\* handleFullscreenChange: setIsFullscreen(!!document.fullscreenElement)
HandleFullscreenChange ==
    /\ mounted
    /\ fullscreenChanges > 0
    /\ fullscreenChanges' = fullscreenChanges - 1
    /\ isFullscreen' = fullscreenElement
    /\ UNCHANGED <<scrubVars, scrubHist, volumeVars, videoPaused, mounted,
                   videoCurrentTime, controlsVars, fullscreenElement, captionVars>>

\* togglePlay, the container's onClick outside the controls: pause() when the
\* isVideoPlaying state holds and play() otherwise; the element's play or
\* pause notification, sent only when its paused flag changes, runs
\* playStateChange: setIsVideoPlaying(!video.paused)
TogglePlay ==
    /\ mounted
    /\ videoPaused' = isVideoPlaying
    /\ isVideoPlaying' = IF videoPaused' # videoPaused THEN ~videoPaused'
                         ELSE isVideoPlaying
    /\ canvas' = IF isVideoPlaying' = isVideoPlaying THEN canvas ELSE None
    /\ imgPending' = IF isVideoPlaying' = isVideoPlaying THEN imgPending ELSE << >>
    /\ UNCHANGED <<trackWidth, containerWidth, pointerOver, previewTime,
                   previewPosition, isMoving, lastPositionRef, moveTimeoutRef,
                   timeoutId, previewCache, seekTarget, volumeVars, playerVars>>

\* a click handler that goes through the debounced preview seek
HandleProgressClickDebounced(newPosition) ==
    /\ mounted
    /\ newPosition <= trackWidth
    /\ DebouncedSeek(PosToTime(newPosition, trackWidth))
    /\ UNCHANGED <<trackWidth, containerWidth, isVideoPlaying, pointerOver,
                   previewTime, previewPosition, isMoving, lastPositionRef,
                   moveTimeoutRef, previewCache, canvas, seekTarget>>
    /\ UNCHANGED <<volumeVars, videoPaused, mounted, videoCurrentTime,
                   controlsVars, fullscreenVars, captionVars>>

\* handleProgressClick(e): onTimeUpdate(pos * duration), which is
\* handleTimeUpdate: videoRef.current.currentTime = newTime
HandleProgressClick(newPosition) ==
    /\ mounted
    /\ newPosition <= trackWidth
    /\ videoCurrentTime' = PosToTime(newPosition, trackWidth)
    /\ UNCHANGED <<scrubVars, volumeVars, videoPaused, mounted, controlsVars,
                   fullscreenVars, captionVars>>

\* the player is closed: the cleanups of VideoPlayer (listeners, the timer in
\* controlsTimerRef) and of ProgressBar (seeked listener, ResizeObserver,
\* moveTimeoutRef) run; nothing clears debouncedSeek's timeoutId
Unmount ==
    /\ mounted
    /\ mounted' = FALSE
    /\ controlsTimers' = {t \in controlsTimers : controlsTimerRef # Some(t.id)}
    /\ moveTimeoutRef' = None
    /\ videoPaused' = TRUE
    /\ seekTarget' = None
    /\ canvas' = None
    /\ imgPending' = << >>
    /\ pointerOver' = FALSE
    /\ UNCHANGED <<trackWidth, containerWidth, isVideoPlaying, previewTime,
                   previewPosition, isMoving, lastPositionRef, timeoutId,
                   previewCache>>
    /\ UNCHANGED <<volumeVars, videoCurrentTime, isControlsVisible,
                   controlsTimerRef, fullscreenVars, captionVars>>

\* the player is closed and a new one constructed, for an item with the given
\* text tracks: the preferences are read back from the store, the effects
\* write them again, and every other state starts afresh
Remount(tracks) ==
    /\ volume' = LoadVolume(storage, VOLUME_STORAGE_KEY)
    /\ previousVolume' = LoadVolume(storage, PREVIOUS_VOLUME_STORAGE_KEY)
    /\ showChapterMarkers' = LoadShowChapterMarkers(storage)
    /\ showCaptions' = LoadShowCaptions(storage)
    /\ selectedTrack' = LoadSelectedTrack(storage)
    /\ storage' = Persist(volume', previousVolume', showChapterMarkers',
                          showCaptions', selectedTrack')
    /\ videoVolume' = ApplyVolume(10, volume')
    /\ textTracks' = tracks
    /\ trackModes' = [i \in DOMAIN tracks |-> "disabled"]
    /\ availableTracks' = << >>
    /\ mounted' = TRUE
    /\ videoPaused' = TRUE
    /\ videoCurrentTime' = 0
    /\ isControlsVisible' = TRUE
    /\ controlsTimers' = {}
    /\ controlsTimerRef' = None
    /\ isFullscreen' = FALSE
    /\ fullscreenElement' = FALSE
    /\ fullscreenChanges' = 0
    /\ containerWidth' = 0
    /\ isVideoPlaying' = TRUE
    /\ pointerOver' = FALSE
    /\ previewTime' = None
    /\ previewPosition' = 0
    /\ isMoving' = FALSE
    /\ lastPositionRef' = None
    /\ moveTimeoutRef' = None
    /\ timeoutId' = None
    /\ previewCache' = << >>
    /\ canvas' = None
    /\ imgPending' = << >>
    /\ seekTarget' = None
    /\ UNCHANGED <<trackWidth, scrubHist>>

----------------------------------------------------------------------------
(* Observers: they record what happened and never influence the program *)

SinceHoverCap == DEBOUNCE_DELAY + TickMs
SinceQualifyingCap == TIME_THRESHOLD + TickMs

\* a hover move was handled (the player is paused)
ObserveHover(newPosition) ==
    IF isVideoPlaying
    THEN UNCHANGED <<hSinceHover, hHover, hSeeks>>
    ELSE /\ hSinceHover' = 0
         /\ hSeeks' = 0
         /\ hHover' = Some([time |-> PosToTime(newPosition, trackWidth),
                            cached |-> Floor(PosToTime(newPosition, trackWidth))
                                           \in DOMAIN previewCache,
                            mounted |-> OverlayRendered,
                            burst |-> IF IsSome(hHover) /\ hSinceHover < DEBOUNCE_DELAY
                                      THEN Min(Val(hHover).burst + 1, MaxBurst)
                                      ELSE 1])

\* a handled hover move of more than 5 px from the last hover position
ObserveQualifying(newPosition) ==
    hSinceQualifying' = IF /\ ~isVideoPlaying
                           /\ Distance(newPosition) > MOVEMENT_THRESHOLD
                        THEN 0
                        ELSE hSinceQualifying

ObserveSeekTo == hSeeks' = Min(hSeeks + 1, MaxSeeks)

SinceMoveCap == HIDE_DELAY + ControlsTickMs
QuietCap == HIDE_DELAY + ControlsTickMs

\* the five persisted preferences
Prefs == [volume |-> volume, previousVolume |-> previousVolume,
          showChapterMarkers |-> showChapterMarkers,
          showCaptions |-> showCaptions, selectedTrack |-> selectedTrack]

\* the preferences as a new player would read them from the store
StoredPrefs ==
    [volume |-> LoadVolume(storage, VOLUME_STORAGE_KEY),
     previousVolume |-> LoadVolume(storage, PREVIOUS_VOLUME_STORAGE_KEY),
     showChapterMarkers |-> LoadShowChapterMarkers(storage),
     showCaptions |-> LoadShowCaptions(storage),
     selectedTrack |-> LoadSelectedTrack(storage)]

\* the player operation just performed, with the state it started from and
\* the operation before it
ObservePlayer(op, arg) ==
    hLast' = Some([op |-> op, arg |-> arg, prefs |-> Prefs, showing |-> Showing,
                   listed |-> availableTracks,
                   prevOp |-> IF IsSome(hLast) THEN Val(hLast).op ELSE "",
                   prevShowing |-> IF IsSome(hLast) THEN Val(hLast).showing ELSE {}])

----------------------------------------------------------------------------
(* Initial state: the components as mounted *)

WideTrack == CHOOSE w \in Widths : \A v \in Widths : v <= w

InitScrub ==
    /\ trackWidth \in Widths
    /\ containerWidth = 0
    /\ isVideoPlaying = TRUE
    /\ pointerOver = FALSE
    /\ previewTime = None
    /\ previewPosition = 0
    /\ isMoving = FALSE
    /\ lastPositionRef = None
    /\ moveTimeoutRef = None
    /\ timeoutId = None
    /\ previewCache = << >>
    /\ canvas = None
    /\ imgPending = << >>
    /\ seekTarget = None
    /\ hSinceHover = SinceHoverCap
    /\ hHover = None
    /\ hSeeks = 0
    /\ hSinceQualifying = SinceQualifyingCap

\* the volume state is read from the store, 1 when the key is absent; the
\* effects then write both values back and apply the volume to the element
InitVolume ==
    /\ volume = LoadVolume(EmptyStorage, VOLUME_STORAGE_KEY)
    /\ previousVolume = LoadVolume(EmptyStorage, PREVIOUS_VOLUME_STORAGE_KEY)
    /\ videoVolume = ApplyVolume(10, volume)
    /\ storage = Persist(volume, previousVolume,
                         LoadShowChapterMarkers(EmptyStorage),
                         LoadShowCaptions(EmptyStorage),
                         LoadSelectedTrack(EmptyStorage))
    /\ hOps = << >>

\* the text tracks of the first item played
InitialTracks == <<"English", "Spanish">>

\* the player as constructed with an empty store: the element has not
\* started to play, the controls are visible, no timer is pending
InitPlayer ==
    /\ mounted = TRUE
    /\ videoPaused = TRUE
    /\ videoCurrentTime = 0
    /\ isControlsVisible = TRUE
    /\ controlsTimers = {}
    /\ controlsTimerRef = None
    /\ isFullscreen = FALSE
    /\ fullscreenElement = FALSE
    /\ fullscreenChanges = 0
    /\ showChapterMarkers = LoadShowChapterMarkers(EmptyStorage)
    /\ showCaptions = LoadShowCaptions(EmptyStorage)
    /\ selectedTrack = LoadSelectedTrack(EmptyStorage)
    /\ textTracks = InitialTracks
    /\ trackModes = [i \in DOMAIN InitialTracks |-> "disabled"]
    /\ availableTracks = << >>
    /\ hSinceMove = SinceMoveCap
    /\ hQuiet = 0
    /\ hLast = None

Init == InitScrub /\ InitVolume /\ InitPlayer

----------------------------------------------------------------------------
(* Spec: the debounced seek and the frame cache, on a wide track *)

NextSeek ==
    \/ \E newPosition \in SeekPositions :
          /\ PointerMove(newPosition)
          /\ ObserveHover(newPosition)
          /\ UNCHANGED hSinceQualifying
    \/ MouseLeave /\ UNCHANGED scrubHist
    \/ PlayStateChange /\ UNCHANGED <<scrubHist, playerHist>>
    \/ DebounceFire /\ ObserveSeekTo /\ UNCHANGED <<hSinceHover, hHover, hSinceQualifying>>
    \/ MoveTimeoutFire /\ UNCHANGED scrubHist
    \/ Tick /\ hSinceHover' = Min(hSinceHover + TickMs, SinceHoverCap)
            /\ UNCHANGED <<hHover, hSeeks, hSinceQualifying>>
    \/ \E throws \in BOOLEAN :
          \E landed \in (IF IsSome(seekTarget) THEN Landings(Val(seekTarget)) ELSE {}) :
             Seeked(landed, throws) /\ UNCHANGED scrubHist
    \/ ImgLoaded /\ UNCHANGED scrubHist
    \/ ResizeObserved /\ UNCHANGED scrubHist

\* the components as mounted, on the wide track
InitSeek == Init /\ trackWidth = WideTrack

Spec == InitSeek /\ [][NextSeek]_vars

\* C1 (debounce coalescing): after a handled hover move to an uncached
\* second, no seekTo is issued while less than 150 ms have passed since that
\* move (so every move of a burst but the last issues none), exactly one has
\* been issued once more than 150 ms have passed, never more than one, and
\* the seek issued targets the time of that last move.
C1_DebounceCoalescing ==
    (IsSome(hHover) /\ ~Val(hHover).cached) =>
        /\ (hSinceHover < DEBOUNCE_DELAY => hSeeks = 0)
        /\ (hSinceHover > DEBOUNCE_DELAY => hSeeks = 1)
        /\ hSeeks <= 1
        /\ (hSeeks = 1 /\ IsSome(seekTarget) =>
                Val(seekTarget) = Val(hHover).time)

\* three uncached moves, each within 150 ms of the one before, and the one
\* seek issued 150 ms after the last
C1_Witness ==
    /\ IsSome(hHover)
    /\ ~Val(hHover).cached
    /\ Val(hHover).burst = 3
    /\ hSinceHover = DEBOUNCE_DELAY
    /\ hSeeks = 1
    /\ seekTarget = Some(Val(hHover).time)

\* C2 (cache short-circuit): a handled hover move whose second is in the
\* frame cache loads the cached image for the canvas and leaves no debounce
\* timer pending.
C2_CacheShortCircuit ==
    [][\A newPosition \in SeekPositions :
          LET key == Floor(PosToTime(newPosition, trackWidth))
          IN  (PointerMove(newPosition) /\ ~isVideoPlaying
                 /\ key \in DOMAIN previewCache)
              => /\ timeoutId' = None
                 /\ imgPending' = Append(imgPending, previewCache[key])]_vars

\* C3 (cancel on leave / play): while the pointer is off the track (no
\* preview time) or the player is playing, no debounced seek is pending.
C3_CancelOnLeaveOrPlay ==
    (previewTime = None \/ isVideoPlaying) => timeoutId = None

----------------------------------------------------------------------------
(* SpecMove: the movement suppression and the overlay's position, on a     *)
(* narrow or a wide track                                                  *)

NextMove ==
    \/ \E newPosition \in Positions :
          /\ PointerMove(newPosition)
          /\ ObserveQualifying(newPosition)
          /\ UNCHANGED <<hSinceHover, hHover, hSeeks>>
    \/ MouseLeave /\ UNCHANGED scrubHist
    \/ PlayStateChange /\ UNCHANGED <<scrubHist, playerHist>>
    \/ DebounceFire /\ UNCHANGED scrubHist
    \/ MoveTimeoutFire /\ UNCHANGED scrubHist
    \/ Tick /\ hSinceQualifying' = Min(hSinceQualifying + TickMs, SinceQualifyingCap)
            /\ UNCHANGED <<hSinceHover, hHover, hSeeks>>
    \/ \E throws \in BOOLEAN :
          \E landed \in (IF IsSome(seekTarget) THEN Landings(Val(seekTarget)) ELSE {}) :
             Seeked(landed, throws) /\ UNCHANGED scrubHist
    \/ ImgLoaded /\ UNCHANGED scrubHist
    \/ ResizeObserved /\ UNCHANGED scrubHist

SpecMove == Init /\ [][NextMove]_vars

C5_ReturnToSettled ==
    isMoving => hSinceQualifying <= TIME_THRESHOLD

\* C6 (boundary exemption): once the last handled hover position is within
\* 160 px of either end of the track the preview is settled, however far and
\* however recently the pointer moved, and it stays settled (no timer makes it
\* moving) for as long as that position is the last one.
C6_BoundaryExemption ==
    ( /\ IsSome(lastPositionRef)
      /\ \/ Val(lastPositionRef) <= BOUNDARY_MARGIN
         \/ Val(lastPositionRef) >= trackWidth - BOUNDARY_MARGIN )
    => ~isMoving

\* the pointer has just gone from the middle of a measured wide track into
\* its right margin, less than 200 ms after a move of more than 5 px, with
\* the movement timer of that move still pending
C6_Witness ==
    /\ ~isVideoPlaying
    /\ containerWidth = trackWidth
    /\ lastPositionRef = Some(840)
    /\ trackWidth - BOUNDARY_MARGIN = 840
    /\ previewPosition = 840
    /\ IsSome(moveTimeoutRef)
    /\ hSinceQualifying = 0
    /\ ~isMoving

\* C7 (overlay position): whenever the overlay is rendered its left offset
\* is at least 160 px and at most the track's width less 160 px.
C7_PreviewLeftClamped ==
    OverlayRendered =>
        /\ PreviewLeft >= BOUNDARY_MARGIN
        /\ PreviewLeft <= trackWidth - BOUNDARY_MARGIN

----------------------------------------------------------------------------
(* SpecVolume: the volume slider and the mute button.                      *)
(* SpecVolumeAny: handleVolumeChange called with any number.               *)

\* the operation just performed, with the state it started from
ObserveOp(op, arg) ==
    LET this == [op |-> op, arg |-> arg, volume |-> volume,
                 previousVolume |-> previousVolume]
    IN  hOps' = IF hOps = << >> THEN <<this>> ELSE <<this, hOps[1]>>

NextVolume ==
    \/ \E newVolume \in SliderValues :
          /\ HandleVolumeChange(newVolume)
          /\ ObserveOp("setVolume", newVolume)
          /\ UNCHANGED playerHist
    \/ HandleVolumeMuteToggle /\ ObserveOp("toggleMute", 0) /\ UNCHANGED playerHist
    \/ Remount(textTracks) /\ ObserveOp("remount", 0) /\ UNCHANGED playerHist

SpecVolume == Init /\ [][NextVolume]_vars

\* C8 (mute / unmute round trip): toggleMute at a volume v > 0 leaves volume
\* 0 and previousVolume v; a second toggleMute right after it leaves volume
\* exactly v again, previousVolume still v.
C8_MuteRoundTrip ==
    /\ (Len(hOps) >= 1 /\ hOps[1].op = "toggleMute" /\ hOps[1].volume > 0)
          => /\ volume = 0
             /\ previousVolume = hOps[1].volume
    /\ ( /\ Len(hOps) = 2
         /\ hOps[1].op = "toggleMute"
         /\ hOps[2].op = "toggleMute"
         /\ hOps[2].volume > 0 )
          => /\ volume = hOps[2].volume
             /\ previousVolume = hOps[2].volume

\* volume 0.7, muted and unmuted by the button
C8_Witness ==
    /\ Len(hOps) = 2
    /\ hOps[1].op = "toggleMute"
    /\ hOps[2].op = "toggleMute"
    /\ hOps[2].volume = 7
    /\ hOps[1].volume = 0
    /\ hOps[1].previousVolume = 7
    /\ volume = 7

\* C9 (previousVolume under setVolume): setVolume(v) with v > 0 leaves
\* previousVolume v; setVolume(0) leaves previousVolume as it was; and a
\* toggleMute right after setVolume(0) leaves the volume at the level that
\* was remembered before, the level the slider was muted from when that was
\* above 0.
C9_SetVolumePrevious ==
    /\ (Len(hOps) >= 1 /\ hOps[1].op = "setVolume" /\ hOps[1].arg > 0)
          => previousVolume = hOps[1].arg
    /\ (Len(hOps) >= 1 /\ hOps[1].op = "setVolume" /\ hOps[1].arg = 0)
          => /\ previousVolume = hOps[1].previousVolume
             /\ volume = 0
    /\ ( /\ Len(hOps) = 2
         /\ hOps[1].op = "toggleMute"
         /\ hOps[2].op = "setVolume"
         /\ hOps[2].arg = 0 )
          => /\ volume = hOps[2].previousVolume
             /\ hOps[2].volume > 0 => volume = hOps[2].volume

\* volume 0.7, muted with the slider and unmuted by the button
C9_Witness ==
    /\ Len(hOps) = 2
    /\ hOps[1].op = "toggleMute"
    /\ hOps[2].op = "setVolume"
    /\ hOps[2].arg = 0
    /\ hOps[2].volume = 7
    /\ hOps[1].volume = 0
    /\ volume = 7
    /\ previousVolume = 7

NextVolumeAny ==
    \/ \E newVolume \in NumberValues :
          /\ HandleVolumeChange(newVolume)
          /\ ObserveOp("setVolume", newVolume)
          /\ UNCHANGED playerHist
    \/ HandleVolumeMuteToggle /\ ObserveOp("toggleMute", 0) /\ UNCHANGED playerHist
    \/ Remount(textTracks) /\ ObserveOp("remount", 0) /\ UNCHANGED playerHist

SpecVolumeAny == Init /\ [][NextVolumeAny]_vars

----------------------------------------------------------------------------
(* SpecPrefs: the persisted preferences and the caption tracks, over       *)
(* several player sessions                                                 *)

\* the levels the slider is set to in these sessions
PrefVolumes == {0, 7, 10}

\* the labels the caption menu lists
ListedLabels == {availableTracks[i] : i \in DOMAIN availableTracks}

NextPrefs ==
    \/ \E newVolume \in PrefVolumes :
          /\ HandleVolumeChange(newVolume)
          /\ ObservePlayer("setVolume", newVolume)
          /\ UNCHANGED <<hOps, hSinceMove, hQuiet>>
    \/ /\ HandleVolumeMuteToggle
       /\ ObservePlayer("toggleMute", 0)
       /\ UNCHANGED <<hOps, hSinceMove, hQuiet>>
    \/ /\ ToggleChapterMarkers
       /\ ObservePlayer("toggleChapterMarkers", 0)
       /\ UNCHANGED <<hSinceMove, hQuiet>>
    \/ /\ HandleTracksChange
       /\ ObservePlayer("loadedmetadata", 0)
       /\ UNCHANGED <<hSinceMove, hQuiet>>
    \/ /\ HandleCaptionToggle
       /\ ObservePlayer("toggleCaptions", 0)
       /\ UNCHANGED <<hSinceMove, hQuiet>>
    \/ \E trackLabel \in ListedLabels :
          /\ HandleTrackSelect(trackLabel)
          /\ ObservePlayer("selectTrack", trackLabel)
          /\ UNCHANGED <<hSinceMove, hQuiet>>
    \/ \E tracks \in TrackLists :
          /\ Remount(tracks)
          /\ ObservePlayer("remount", 0)
          /\ UNCHANGED <<hOps, hSinceMove, hQuiet>>

SpecPrefs == Init /\ [][NextPrefs]_vars

\* the values a player has with an empty store
DefaultPrefs == [volume |-> 10, previousVolume |-> 10, showChapterMarkers |-> TRUE,
                 showCaptions |-> FALSE, selectedTrack |-> ""]

\* C11 (preference persistence round trip): in every state the store holds
\* the current value of each of the five preferences (every change has been
\* written); a player constructed after a session starts with the five
\* values the session ended with; with an empty store it starts with the
\* defaults.
C11_PersistenceRoundTrip ==
    /\ StoredPrefs = Prefs
    /\ (IsSome(hLast) /\ Val(hLast).op = "remount") => Prefs = Val(hLast).prefs
    /\ hLast = None => Prefs = DefaultPrefs

\* a new player starts with five values that all differ from the defaults
C11_Witness ==
    /\ IsSome(hLast)
    /\ Val(hLast).op = "remount"
    /\ Prefs = [volume |-> 0, previousVolume |-> 7, showChapterMarkers |-> FALSE,
                showCaptions |-> TRUE, selectedTrack |-> "Spanish"]

\* C12 (one showing track): in every state at most one text track of the
\* primary element is showing.
C12_AtMostOneShowing == Cardinality(Showing) <= 1

\* captions are turned on through the fallback to the first track, on an
\* item with two tracks none of which has the remembered label
C12_Witness ==
    /\ IsSome(hLast)
    /\ Val(hLast).op = "toggleCaptions"
    /\ ~Val(hLast).prefs.showCaptions
    /\ Val(hLast).prefs.selectedTrack = "Spanish"
    /\ textTracks = <<"English", "English">>
    /\ Showing = {1}

\* C13 (caption track across sessions): right after the metadata
\* notification, if captions are enabled and a track has the remembered
\* label, exactly that track (the first with the label) is showing and every
\* other track is disabled; otherwise every track is disabled.
C13_TrackRestoredOnLoad ==
    (IsSome(hLast) /\ Val(hLast).op = "loadedmetadata") =>
        /\ Prefs = Val(hLast).prefs
        /\ IF showCaptions /\ selectedTrack # "" /\ HasTrack(selectedTrack)
           THEN /\ Showing = {Find(selectedTrack)}
                /\ textTracks[Find(selectedTrack)] = selectedTrack
           ELSE Showing = {}

\* "Spanish" was selected in an earlier session; the new session's metadata
\* arrives and the second track, labelled "Spanish", is the one showing
C13_Witness ==
    /\ IsSome(hLast)
    /\ Val(hLast).op = "loadedmetadata"
    /\ Val(hLast).prevOp = "remount"
    /\ showCaptions
    /\ selectedTrack = "Spanish"
    /\ textTracks = <<"English", "Spanish">>
    /\ Showing = {2}

\* C14 (toggleCaptions): turning captions on, with at least one track, shows
\* the track with the remembered label when there is one and otherwise the
\* first track, whose label becomes the selected one, and marks captions
\* enabled; turning them off disables every track and keeps the selected
\* label; turning them off and on again shows the track that was showing.
C14_ToggleCaptions ==
    (IsSome(hLast) /\ Val(hLast).op = "toggleCaptions") =>
        LET before == Val(hLast).prefs
        IN  /\ (~before.showCaptions /\ textTracks # << >>) =>
                  /\ showCaptions
                  /\ IF before.selectedTrack # "" /\ HasTrack(before.selectedTrack)
                     THEN /\ Showing = {Find(before.selectedTrack)}
                          /\ selectedTrack = before.selectedTrack
                     ELSE /\ Showing = {1}
                          /\ selectedTrack = textTracks[1]
            /\ before.showCaptions =>
                  /\ ~showCaptions
                  /\ Showing = {}
                  /\ selectedTrack = before.selectedTrack
            /\ ( /\ ~before.showCaptions
                 /\ Val(hLast).prevOp = "toggleCaptions"
                 /\ Val(hLast).prevShowing # {} )
               => Showing = Val(hLast).prevShowing

\* the second track was showing; captions were turned off and on again
C14_Witness ==
    /\ IsSome(hLast)
    /\ Val(hLast).op = "toggleCaptions"
    /\ Val(hLast).prevOp = "toggleCaptions"
    /\ Val(hLast).prevShowing = {2}
    /\ Val(hLast).showing = {}
    /\ Showing = {2}
    /\ showCaptions

\* C15 (selectTrack): selectTrack(label), for a label the caption menu lists,
\* leaves exactly the (first) track with that label showing, captions
\* enabled, and label selected and written to the store.
C15_SelectTrack ==
    (IsSome(hLast) /\ Val(hLast).op = "selectTrack") =>
        LET label == Val(hLast).arg
        IN  /\ Showing = {Find(label)}
            /\ textTracks[Find(label)] = label
            /\ showCaptions
            /\ selectedTrack = label
            /\ storage[CAPTION_TRACK_STORAGE_KEY] = Some(label)
            /\ storage[CAPTIONS_ENABLED_STORAGE_KEY] = Some("true")

\* "Spanish" is selected while captions are off and "English" is remembered
C15_Witness ==
    /\ IsSome(hLast)
    /\ Val(hLast).op = "selectTrack"
    /\ Val(hLast).arg = "Spanish"
    /\ ~Val(hLast).prefs.showCaptions
    /\ Val(hLast).prefs.selectedTrack = "English"
    /\ Showing = {2}

----------------------------------------------------------------------------
(* SpecPlayer: the controls' inactivity timer, play state and fullscreen *)

BoolToInt(b) == IF b THEN 1 ELSE 0

\* time passes for the observers: the time since the last pointer movement,
\* and the time the element has been playing without pointer movement
ObserveElapsed ==
    /\ hSinceMove' = Min(hSinceMove + ControlsTickMs, SinceMoveCap)
    /\ hQuiet' = IF videoPaused THEN 0 ELSE Min(hQuiet + ControlsTickMs, QuietCap)

NextPlayer ==
    \/ /\ UpdateControlsVisibility
       /\ ObservePlayer("pointerMove", hSinceMove)
       /\ hSinceMove' = 0
       /\ hQuiet' = 0
    \/ /\ ControlsTimerFire
       /\ UNCHANGED playerHist
    \/ /\ ControlsTick
       /\ ObserveElapsed
       /\ UNCHANGED hLast
    \/ /\ PlayStateChange
       /\ hQuiet' = 0
       /\ UNCHANGED <<scrubHist, hSinceMove, hLast>>
    \/ \E granted \in BOOLEAN :
          /\ ToggleFullscreen(granted)
          /\ ObservePlayer("toggleFullscreen", BoolToInt(granted))
          /\ UNCHANGED <<hSinceMove, hQuiet>>
    \/ /\ ExternalExit
       /\ ObservePlayer("externalExit", 0)
       /\ UNCHANGED <<hSinceMove, hQuiet>>
    \/ /\ HandleFullscreenChange
       /\ ObservePlayer("fullscreenchange", BoolToInt(isFullscreen))
       /\ UNCHANGED <<hSinceMove, hQuiet>>

SpecPlayer == Init /\ [][NextPlayer]_vars

\* C16 (controls auto-hide): whenever the element has been playing for more
\* than 3000 ms without pointer movement over the player, the controls are
\* hidden.
C16_AutoHide == (~videoPaused /\ hQuiet > HIDE_DELAY) => ~isControlsVisible

\* C17 (pointer movement and the hide timer): at most one hide timer is
\* pending; for 3000 ms after a pointer movement the controls are visible and
\* the one pending timer is the one that movement started, due 3000 ms after
\* it; so the controls are never hidden less than 3000 ms after the most
\* recent pointer movement.
C17_MoveRestartsTimer ==
    /\ Cardinality(controlsTimers) <= 1
    /\ hSinceMove < HIDE_DELAY =>
          /\ isControlsVisible
          /\ \E t \in controlsTimers :
                /\ controlsTimers = {t}
                /\ controlsTimerRef = Some(t.id)
                /\ t.rem = HIDE_DELAY - hSinceMove
    /\ ~isControlsVisible => hSinceMove >= HIDE_DELAY

\* the pointer moved 1000 ms after the movement before it, whose timer was
\* still pending, and the controls are hidden exactly 3000 ms after the later
\* movement
C17_Witness ==
    /\ IsSome(hLast)
    /\ Val(hLast).op = "pointerMove"
    /\ Val(hLast).arg = ControlsTickMs
    /\ hSinceMove = HIDE_DELAY
    /\ ~isControlsVisible

\* C18 (fullscreen state): isFullscreen changes only in a step that processes
\* a fullscreenchange notification, and after such a step it equals whether
\* the document has a fullscreen element; once every notification is
\* processed isFullscreen agrees with the document, after a granted or a
\* rejected request and after an exit by the browser.
C18_FullscreenFromNotification ==
    /\ [][ /\ isFullscreen' # isFullscreen =>
                fullscreenChanges' = fullscreenChanges - 1
           /\ fullscreenChanges' = fullscreenChanges - 1 =>
                isFullscreen' = fullscreenElement' ]_vars
    /\ [](fullscreenChanges = 0 => isFullscreen = fullscreenElement)

\* the player was fullscreen, the browser left fullscreen, and the
\* notification of that has been processed
C18_Witness ==
    /\ IsSome(hLast)
    /\ Val(hLast).op = "fullscreenchange"
    /\ Val(hLast).arg = 1
    /\ Val(hLast).prevOp = "externalExit"
    /\ ~isFullscreen
    /\ ~fullscreenElement

----------------------------------------------------------------------------
(* SpecSession: hovering, clicking the track and closing the player, on a   *)
(* wide track                                                               *)

\* where the pointer hovers and clicks
ClickPositions == {200, 840}

NextSession ==
    \/ \E newPosition \in ClickPositions :
          PointerMove(newPosition) /\ UNCHANGED scrubHist
    \/ MouseLeave /\ UNCHANGED scrubHist
    \/ PlayStateChange /\ UNCHANGED <<scrubHist, playerHist>>
    \/ DebounceFire /\ UNCHANGED scrubHist
    \/ MoveTimeoutFire /\ UNCHANGED scrubHist
    \/ Tick /\ UNCHANGED scrubHist
    \/ \E landed \in (IF IsSome(seekTarget) THEN Landings(Val(seekTarget)) ELSE {}) :
          Seeked(landed, FALSE) /\ UNCHANGED scrubHist
    \/ ResizeObserved /\ UNCHANGED scrubHist
    \/ \E newPosition \in ClickPositions :
          /\ HandleProgressClick(newPosition)
          /\ ObservePlayer("click", newPosition)
          /\ UNCHANGED <<scrubHist, hSinceMove, hQuiet>>
    \/ /\ Unmount
       /\ ObservePlayer("unmount", 0)
       /\ UNCHANGED <<scrubHist, hSinceMove, hQuiet>>

SpecSession == InitSeek /\ [][NextSession]_vars

\* C19 (teardown cancels the timers): once the player is closed neither the
\* debounce timer nor the movement timer is pending.
C19_TeardownCancelsTimers ==
    ~mounted => (timeoutId = None /\ moveTimeoutRef = None)

\* C20 (click seeks the primary element): a click on the track at position p
\* sets the primary element's currentTime to (p / width) x duration in the
\* same step, playing or paused, and leaves the hidden element's seek target,
\* the debounce timer and the frame cache as they were.
C20_ClickSeeksPrimary ==
    [][\A newPosition \in ClickPositions :
          HandleProgressClick(newPosition) =>
              /\ videoCurrentTime' = PosToTime(newPosition, trackWidth)
              /\ UNCHANGED <<seekTarget, timeoutId, previewCache>>]_vars

\* paused, with a cached frame and a debounced seek pending from hovering,
\* the track is clicked at 840 px
C20_Witness ==
    /\ IsSome(hLast)
    /\ Val(hLast).op = "click"
    /\ Val(hLast).arg = 840
    /\ videoPaused
    /\ videoCurrentTime = PosToTime(840, trackWidth)
    /\ previewCache # << >>
    /\ IsSome(timeoutId)
    /\ seekTarget = None

----------------------------------------------------------------------------
(* SpecCache: the frame cache, with hover targets whose seek can land in    *)
(* another second, on a wide track                                         *)

\* hover offsets: 2.0 s, 3.5 s (preceding keyframe at 2.0 s) and 8.4 s
CachePositions == {200, 350, 840}

\* the times the hidden element can report after a seek from these offsets
CacheLandings == UNION {Landings(PosToTime(p, WideTrack)) : p \in CachePositions}

NextCache ==
    \/ \E newPosition \in CachePositions :
          /\ PointerMove(newPosition)
          /\ ObserveHover(newPosition)
          /\ UNCHANGED hSinceQualifying
    \/ MouseLeave /\ UNCHANGED scrubHist
    \/ PlayStateChange /\ UNCHANGED <<scrubHist, playerHist>>
    \/ DebounceFire /\ ObserveSeekTo /\ UNCHANGED <<hSinceHover, hHover, hSinceQualifying>>
    \/ Tick /\ hSinceHover' = Min(hSinceHover + TickMs, SinceHoverCap)
            /\ UNCHANGED <<hHover, hSeeks, hSinceQualifying>>
    \/ \E throws \in BOOLEAN :
          \E landed \in (IF IsSome(seekTarget) THEN Landings(Val(seekTarget)) ELSE {}) :
             Seeked(landed, throws) /\ UNCHANGED scrubHist
    \/ ImgLoaded /\ UNCHANGED scrubHist

SpecCache == InitSeek /\ [][NextCache]_vars

\* C21 (rasterization failure): a seeked notification whose rasterization
\* throws leaves the frame cache as it was, leaves the player mounted (the
\* exception does not leave the handler), and leaves the primary element's
\* paused flag and position and the isPlaying state as they were.
C21_RasterizationFailure ==
    [][\A landed \in CacheLandings :
          Seeked(landed, TRUE) =>
              UNCHANGED <<previewCache, mounted, videoPaused, videoCurrentTime,
                          isVideoPlaying>>]_vars

\* a frame was drawn on the canvas by a handler whose toDataURL threw: the
\* canvas shows a frame of a second that has no cache entry, while the
\* entries written before are still there
C21_Witness ==
    /\ OverlayRendered
    /\ IsSome(canvas)
    /\ Floor(Val(canvas)) \notin DOMAIN previewCache
    /\ previewCache # << >>

\* C22 (no preview while playing): a pointer movement over the track while
\* isPlaying holds changes neither the preview time nor the preview position,
\* starts no debounce timer and no seek of the hidden element, and leaves the
\* overlay unrendered; and in every state where the overlay is rendered the
\* primary element is paused and the pointer is over the track.
C22_NoPreviewWhilePlaying ==
    /\ [][\A newPosition \in CachePositions :
             (PointerMove(newPosition) /\ isVideoPlaying) =>
                 /\ UNCHANGED <<previewTime, previewPosition, timeoutId, seekTarget>>
                 /\ ~OverlayRendered']_vars
    /\ [](OverlayRendered => (videoPaused /\ ~isVideoPlaying /\ pointerOver))

\* the pointer has hovered the track while paused and left it; the element
\* plays and the pointer moves over the track again
C22_Witness ==
    /\ isVideoPlaying
    /\ ~videoPaused
    /\ pointerOver
    /\ IsSome(lastPositionRef)
    /\ previewTime = None
    /\ timeoutId = None

\* C23 (cache key): every entry of the frame cache holds, under key k, an
\* image rasterized while the hidden element reported a time t with
\* floor(t) = k.
C23_KeyedByReportedTime ==
    \A k \in DOMAIN previewCache : Floor(previewCache[k]) = k

\* the last hover asked for 3.5 s, the seek issued for it has completed on
\* the keyframe at 2.0 s, and the frame is cached under second 2, not 3
C23_Witness ==
    /\ IsSome(hHover)
    /\ Val(hHover).time = 3500
    /\ hSeeks = 1
    /\ seekTarget = None
    /\ canvas = Some(2000)
    /\ 2 \in DOMAIN previewCache
    /\ previewCache[2] = 2000
    /\ 3 \notin DOMAIN previewCache

\* C24 (the cache is a plain map): in every step no entry is removed; an
\* entry appears or changes only in a seeked notification that writes it, and
\* then holds the image written, whatever was there before; a write changes
\* no other entry; a hover whose second is cached (with the canvas mounted)
\* gets the entry's current image, and a hover whose second was never
\* written gets none and carries on to schedule a seek.
C24_CacheIsPlainMap ==
    [][ /\ \A k \in DOMAIN previewCache : k \in DOMAIN previewCache'
        /\ \A k \in DOMAIN previewCache' :
              (k \notin DOMAIN previewCache \/ previewCache'[k] # previewCache[k]) =>
                  \E landed \in CacheLandings :
                     /\ Seeked(landed, FALSE)
                     /\ Floor(landed) = k
                     /\ previewCache'[k] = landed
        /\ \A landed \in CacheLandings :
              (Seeked(landed, FALSE) /\ OverlayRendered) =>
                  /\ previewCache'[Floor(landed)] = landed
                  /\ \A k \in DOMAIN previewCache :
                        k # Floor(landed) => previewCache'[k] = previewCache[k]
        /\ \A newPosition \in CachePositions :
              (PointerMove(newPosition) /\ OverlayRendered) =>
                  LET key == Floor(PosToTime(newPosition, trackWidth))
                  IN  IF key \in DOMAIN previewCache
                      THEN imgPending' = Append(imgPending, previewCache[key])
                      ELSE /\ imgPending' = imgPending
                           /\ IsSome(timeoutId') ]_vars

\* second 8 was written with the frame of 8.4 s, a hover looked that image
\* up, and a later write for second 8 replaced it by the frame of 8.0 s
C24_Witness ==
    /\ imgPending = <<8400>>
    /\ 8 \in DOMAIN previewCache
    /\ previewCache[8] = 8000
    /\ canvas = Some(8000)

\* C25 (every successful seek is cached): after a seeked notification whose
\* rasterization does not throw, the cache has an entry for the floor of the
\* time the hidden element reports.
C25_EverySeekCached ==
    [][\A landed \in CacheLandings :
          Seeked(landed, FALSE) => Floor(landed) \in DOMAIN previewCache']_vars

\* C26 (the frame shown belongs to the hover target): while the overlay is
\* rendered for hover target T, a frame on the preview canvas is the frame of
\* second floor(T).
C26_FrameMatchesTarget ==
    (OverlayRendered /\ IsSome(canvas)) =>
        Floor(Val(canvas)) = Floor(Val(previewTime))

----------------------------------------------------------------------------
(* SpecPlayback: play and pause by click, autoplay, and the controls' timer *)

NextPlayback ==
    \/ /\ TogglePlay
       /\ ObservePlayer("togglePlay", BoolToInt(videoPaused))
       /\ hQuiet' = 0
       /\ UNCHANGED <<scrubHist, hSinceMove>>
    \/ /\ PlayStateChange
       /\ hQuiet' = 0
       /\ UNCHANGED <<scrubHist, hSinceMove, hLast>>
    \/ /\ UpdateControlsVisibility
       /\ ObservePlayer("pointerMove", hSinceMove)
       /\ hSinceMove' = 0
       /\ hQuiet' = 0
    \/ /\ ControlsTimerFire
       /\ UNCHANGED playerHist
    \/ /\ ControlsTick
       /\ ObserveElapsed
       /\ UNCHANGED hLast

SpecPlayback == Init /\ [][NextPlayback]_vars

\* C27 (isPlaying mirrors the element): the isVideoPlaying state equals
\* "the primary element is not paused" (the notifications are processed as
\* they are sent).
C27_PlayStateMirrorsElement == isVideoPlaying = ~videoPaused

\* C28 (controls while paused): while the primary element is paused the
\* controls are visible.
C28_VisibleWhilePaused == videoPaused => isControlsVisible

\* the session's text tracks have been enumerated by handleTracksChange
TracksEnumerated ==
    \/ availableTracks # << >>
    \/ IsSome(hLast) /\ Val(hLast).op = "loadedmetadata"

\* C29 (captions flag and showing track): once the text tracks have been
\* enumerated, whenever showCaptions holds exactly one text track is showing.
C29_FlagImpliesShowing ==
    (TracksEnumerated /\ showCaptions) => Cardinality(Showing) = 1

\* C30 (volume / previousVolume): starting from the default preferences,
\* under setVolume with slider values and toggleMute (across sessions),
\* previousVolume is greater than 0 and volume is 0 or equal to
\* previousVolume; so a toggleMute on a muted player leaves a volume above 0.
C30_PreviousVolumePositive ==
    /\ previousVolume > 0
    /\ volume = 0 \/ volume = previousVolume
    /\ (Len(hOps) >= 1 /\ hOps[1].op = "toggleMute" /\ hOps[1].volume = 0)
          => volume > 0

\* the player was muted at 0.3, closed and opened again, and toggleMute
\* brings the volume back to 0.3
C30_Witness ==
    /\ Len(hOps) = 2
    /\ hOps[1].op = "toggleMute"
    /\ hOps[2].op = "remount"
    /\ hOps[1].volume = 0
    /\ hOps[1].previousVolume = 3
    /\ volume = 3
    /\ previousVolume = 3

====
